---- MODULE Spec2Model ----
(***************************************************************************)
(* OfflinePlugin (src/index.js): construction, setAssets (exclusion        *)
(* filter, partition of the build output over the cache sections main,     *)
(* additional, optional, rewrite and normalisation of the paths) and the   *)
(* make / emit hooks that hand the result to the cache tools.              *)
(*                                                                         *)
(* A path is a sequence of one-character strings, so that the regular      *)
(* expressions and the glob matcher of the source work on characters.      *)
(***************************************************************************)
EXTENDS Integers, Sequences, FiniteSets, TLC

VARIABLES
  options,        \* this.options after deepExtend({}, defaultOptions, options)
  scope,          \* this.scope
  relativePaths,  \* this.relativePaths
  externals,      \* this.externals
  tools,          \* Object.keys(this.tools), in insertion order
  hash,           \* this.hash (Null until an emit hook stores the compilation's hash)
  assets,         \* this.assets (Null until setAssets stores the pool)
  caches,         \* this.caches (Null until setAssets assigns the bucket map)
  warnings,       \* compilation.warnings of the current compilation
  outputAssets,   \* Object.keys(compilation.assets) of the current compilation
  argument,       \* the array handed to setAssets, as the call leaves it
  cacheResult,    \* the raw cacheResult of every section, with the branch that pushed each entry
  thrown,         \* the error raised by the constructor or by the last hook
  hook,           \* the hook whose callback the bundler is waiting for
  promises,       \* state of the promise each tool returned to useTools
  all,            \* state of Promise.all(tools)
  reaction,       \* which handler of .then(...) has run for it
  applied,        \* this.caches as each tool's apply found it when it was invoked
  callbacks,      \* how many times the current hook's callback was invoked
  builds          \* compilations started so far

vars == <<options, scope, relativePaths, externals, tools, hash, assets, caches,
          warnings, outputAssets, argument, cacheResult, thrown, hook, promises,
          all, reaction, applied, callbacks, builds>>

----------------------------------------------------------------------------
(* Bounds of the model *)

MaxSelectors == 2   \* selectors in a bucket specification, over all sections
MaxAssets == 3      \* paths in one build output
MaxBuilds == 2      \* compilations of one watch session

----------------------------------------------------------------------------
(* Values *)

Null == [set |-> FALSE, val |-> <<>>]
Val(v) == [set |-> TRUE, val |-> v]

Range(s) == {s[i] : i \in 1..Len(s)}
IndexOf(s, e) == IF e \in Range(s) THEN CHOOSE i \in 1..Len(s) : s[i] = e /\ \A j \in 1..(i - 1) : s[j] # e ELSE 0
Remove(s, i) == SubSeq(s, 1, i - 1) \o SubSeq(s, i + 1, Len(s))
StartsWith(s, p) == Len(s) >= Len(p) /\ SubSeq(s, 1, Len(p)) = p

updateStrategies == {"all", "hash", "changed"}
REST_KEY == <<":", "r", "e", "s", "t", ":">>
entryPrefix == <<"_", "_", "o", "f", "f", "l", "i", "n", "e", "_">>
SectionKeys == <<"main", "additional", "optional">>
ToolNames == <<"ServiceWorker", "AppCache">>

----------------------------------------------------------------------------
(* minimatch (npm dependency) and misc/has-magic, on the glob syntax the   *)
(* model's patterns use: literal characters, "*" and "?".                  *)

GlobChars == {"*", "?", "[", "{"}

RECURSIVE Split(_, _)
\* s.split('/') with cur the segment being read
Split(s, cur) ==
  IF s = <<>> THEN <<cur>>
  ELSE IF Head(s) = "/" THEN <<cur>> \o Split(Tail(s), <<>>)
  ELSE Split(Tail(s), Append(cur, Head(s)))

RECURSIVE segmentMatch(_, _)
\* one path segment against one pattern segment: "*" is [^/]*?, "?" is [^/]
segmentMatch(pat, str) ==
  IF pat = <<>> THEN str = <<>>
  ELSE IF Head(pat) = "*"
    THEN \/ segmentMatch(Tail(pat), str)
         \/ str # <<>> /\ segmentMatch(pat, Tail(str))
  ELSE IF Head(pat) = "?"
    THEN str # <<>> /\ segmentMatch(Tail(pat), Tail(str))
  ELSE str # <<>> /\ Head(str) = Head(pat) /\ segmentMatch(Tail(pat), Tail(str))

\* minimatch(asset, glob) with the default options (dot: false)
minimatch(asset, glob) ==
  LET ps == Split(glob, <<>>)
      fs == Split(asset, <<>>)
      one(p, f) ==
        IF Range(p) \cap GlobChars = {} THEN p = f
        ELSE /\ (Head(p) \in GlobChars => f # <<>>)
             /\ (f # <<>> /\ Head(f) = "." => Head(p) = ".")
             /\ segmentMatch(p, f)
  IN /\ glob # <<>>
     /\ Len(ps) = Len(fs)
     /\ \A i \in 1..Len(ps) : one(ps[i], fs[i])

\* hasMagic(cacheKey): truthy (the matcher) when the pattern has glob syntax
hasMagic(cacheKey) == Range(cacheKey) \cap GlobChars # {}

----------------------------------------------------------------------------
(* Rewrite rules and path normalisation *)

LineTerminators == {"\n", "\r"}
IndexHtm == <<"i", "n", "d", "e", "x", ".", "h", "t", "m">>

\* /^([\s\S]*?)index.htm(l?)$/ on the last n characters of asset: the "."
\* of the expression is unescaped and matches any character but a line end
IndexTail(asset, n) ==
  /\ Len(asset) >= n
  /\ LET t == SubSeq(asset, Len(asset) - n + 1, Len(asset))
     IN /\ SubSeq(t, 1, 5) = SubSeq(IndexHtm, 1, 5)
        /\ t[6] \notin LineTerminators
        /\ SubSeq(t, 7, 9) = SubSeq(IndexHtm, 7, 9)
        /\ (n = 10 => t[10] = "l")

\* defaultOptions.rewrites
defaultRewrites(asset) ==
  LET n == IF IndexTail(asset, 10) THEN 10 ELSE IF IndexTail(asset, 9) THEN 9 ELSE 0
      dir == SubSeq(asset, 1, Len(asset) - n)
  IN IF n = 0 THEN asset ELSE IF dir = <<>> THEN <<"/">> ELSE dir

\* this.rewrite with the table looked up before the entry prefix is tested
rewriteTableFirst(rewrites, asset) ==
  IF rewrites.kind = "table" /\ asset \in DOMAIN rewrites.table THEN rewrites.table[asset]
  ELSE IF StartsWith(asset, entryPrefix) THEN <<>>
  ELSE IF rewrites.kind = "function" THEN defaultRewrites(asset)
  ELSE asset

\* this.rewrite, for a rule that is a function or a table
rewrite(rewrites, asset) ==
  IF StartsWith(asset, entryPrefix) THEN <<>>
  ELSE IF rewrites.kind = "function" THEN defaultRewrites(asset)
  ELSE IF asset \notin DOMAIN rewrites.table THEN asset
  ELSE rewrites.table[asset]

\* key.replace(/^\//, '')
StripSlash(key) == IF key # <<>> /\ Head(key) = "/" THEN Tail(key) ELSE key

\* normalize without key.replace(/^\//, '')
normalizeKeepSlash(key, rel, sc) == IF rel THEN key ELSE sc \o key

\* the last map of validatePaths: one leading "/" is dropped, and the scope
\* is put in front unless the paths are relative
normalize(key, rel, sc) == IF rel THEN StripSlash(key) ELSE sc \o StripSlash(key)

\* validatePaths without the filter of the empty rewrites
validatePathsKeepEmpty(list, rewrites, rel, sc) ==
  [i \in 1..Len(list) |-> normalize(rewrite(rewrites, list[i]), rel, sc)]

\* validatePaths under the plugin fields rel (relativePaths) and sc (scope)
validatePaths(list, rewrites, rel, sc) ==
  LET rewritten == [i \in 1..Len(list) |-> rewrite(rewrites, list[i])]
      kept == SelectSeq(rewritten, LAMBDA a : a # <<>>)
  IN [i \in 1..Len(kept) |-> normalize(kept[i], rel, sc)]

----------------------------------------------------------------------------
(* setAssets *)

Paths(entries) == [i \in 1..Len(entries) |-> entries[i].path]

\* assets.filter(...) of the exclusion step
excludeFilter(list, excludes) ==
  IF Len(excludes) > 0
    THEN SelectSeq(list, LAMBDA a : \A g \in Range(excludes) : ~minimatch(a, g))
    ELSE list

RECURSIVE globScanSkip(_, _, _, _, _, _)
\* globScan with len-- but without i-- after the splice: the path behind a
\* match is stepped over
globScanSkip(cacheKey, pool, i, len, result, matched) ==
  IF ~(i < len) THEN [pool |-> pool, result |-> result, matched |-> matched]
  ELSE IF ~minimatch(pool[i + 1], cacheKey)
    THEN globScanSkip(cacheKey, pool, i + 1, len, result, matched)
  ELSE globScanSkip(cacheKey, Remove(pool, i + 1), i + 1, len - 1,
                    Append(result, [path |-> pool[i + 1], by |-> "glob"]), TRUE)

RECURSIVE globScanKeep(_, _, _, _, _, _)
\* globScan without the splice: a matched path stays in the pool
globScanKeep(cacheKey, pool, i, len, result, matched) ==
  IF ~(i < len) THEN [pool |-> pool, result |-> result, matched |-> matched]
  ELSE IF ~minimatch(pool[i + 1], cacheKey)
    THEN globScanKeep(cacheKey, pool, i + 1, len, result, matched)
  ELSE globScanKeep(cacheKey, pool, i + 1, len,
                    Append(result, [path |-> pool[i + 1], by |-> "glob"]), TRUE)

RECURSIVE globScanFirst(_, _, _, _, _, _)
\* globScan that leaves the loop at its first match
globScanFirst(cacheKey, pool, i, len, result, matched) ==
  IF ~(i < len) THEN [pool |-> pool, result |-> result, matched |-> matched]
  ELSE IF ~minimatch(pool[i + 1], cacheKey)
    THEN globScanFirst(cacheKey, pool, i + 1, len, result, matched)
  ELSE [pool |-> Remove(pool, i + 1),
        result |-> Append(result, [path |-> pool[i + 1], by |-> "glob"]),
        matched |-> TRUE]

RECURSIVE globScan(_, _, _, _, _, _)
\* the for loop over the pool: i and len are the loop's (0-based) variables
globScan(cacheKey, pool, i, len, result, matched) ==
  IF ~(i < len) THEN [pool |-> pool, result |-> result, matched |-> matched]
  ELSE IF ~minimatch(pool[i + 1], cacheKey)
    THEN globScan(cacheKey, pool, i + 1, len, result, matched)
  ELSE globScan(cacheKey, Remove(pool, i + 1), (i - 1) + 1, len - 1,
                Append(result, [path |-> pool[i + 1], by |-> "glob"]), TRUE)

\* restKey that only refuses a second :rest: of the same section
restKeySameSection(st, key) ==
  IF st.restSection = key THEN [st EXCEPT !.thrown = "rest"]
  ELSE [st EXCEPT !.restSection = key]

\* cacheKey === this.REST_KEY: restSection is "" while it is undefined
restKey(st, key) ==
  IF st.restSection # "" THEN [st EXCEPT !.thrown = "rest"]
  ELSE [st EXCEPT !.restSection = key]

\* a cacheKey with glob syntax: scan the pool, warn when nothing matched
globKey(st, cacheKey) ==
  LET r == globScan(cacheKey, st.pool, 0, Len(st.pool), st.cacheResult, FALSE)
  IN [st EXCEPT !.pool = r.pool, !.cacheResult = r.result,
                !.warnings = IF r.matched THEN @
                             ELSE Append(@, [kind |-> "pattern", key |-> cacheKey])]

\* literalKey without the splice of a found literal
literalKeyNoSplice(st, cacheKey, ext) ==
  LET index == IndexOf(st.pool, cacheKey) - 1
      external == Len(ext) > 0 /\ IndexOf(ext, cacheKey) - 1 # -1
      by == IF index # -1 THEN "found" ELSE IF external THEN "external" ELSE "missing"
  IN [st EXCEPT !.warnings = IF index = -1 /\ ~external
                             THEN Append(@, [kind |-> "asset", key |-> cacheKey])
                             ELSE @,
                !.cacheResult = Append(@, [path |-> cacheKey, by |-> by])]

\* literalKey that warns about a missing literal and drops it
literalKeyDropMissing(st, cacheKey, ext) ==
  LET index == IndexOf(st.pool, cacheKey) - 1
      external == Len(ext) > 0 /\ IndexOf(ext, cacheKey) - 1 # -1
      by == IF index # -1 THEN "found" ELSE IF external THEN "external" ELSE "missing"
  IN [st EXCEPT !.pool = IF index = -1 THEN @ ELSE Remove(@, index + 1),
                !.warnings = IF index = -1 /\ ~external
                             THEN Append(@, [kind |-> "asset", key |-> cacheKey])
                             ELSE @,
                !.cacheResult = IF index = -1 /\ ~external THEN @
                                ELSE Append(@, [path |-> cacheKey, by |-> by])]

\* literalKey that looks the literal up among the rewritten paths of the pool
literalKeyRewritten(st, cacheKey, ext) ==
  LET index == IndexOf([i \in 1..Len(st.pool) |-> rewrite(options.rewrites, st.pool[i])],
                       cacheKey) - 1
      external == Len(ext) > 0 /\ IndexOf(ext, cacheKey) - 1 # -1
      by == IF index # -1 THEN "found" ELSE IF external THEN "external" ELSE "missing"
  IN [st EXCEPT !.pool = IF index = -1 THEN @ ELSE Remove(@, index + 1),
                !.warnings = IF index = -1 /\ ~external
                             THEN Append(@, [kind |-> "asset", key |-> cacheKey])
                             ELSE @,
                !.cacheResult = Append(@, [path |-> cacheKey, by |-> by])]

\* a literal cacheKey: the externalsCheck block and the push
literalKey(st, cacheKey, ext) ==
  LET index == IndexOf(st.pool, cacheKey) - 1
      external == Len(ext) > 0 /\ IndexOf(ext, cacheKey) - 1 # -1
      by == IF index # -1 THEN "found" ELSE IF external THEN "external" ELSE "missing"
  IN [st EXCEPT !.pool = IF index = -1 THEN @ ELSE Remove(@, index + 1),
                !.warnings = IF index = -1 /\ ~external
                             THEN Append(@, [kind |-> "asset", key |-> cacheKey])
                             ELSE @,
                !.cacheResult = Append(@, [path |-> cacheKey, by |-> by])]

\* the callback of cache.some for one cacheKey of section key; st holds the
\* pool, compilation.warnings, restSection, cacheResult and the raised error
selector(st, key, cacheKey, ext) ==
  IF cacheKey = REST_KEY THEN restKey(st, key)
  ELSE IF hasMagic(cacheKey) THEN globKey(st, cacheKey)
  ELSE literalKey(st, cacheKey, ext)

RECURSIVE someUntilWarning(_, _, _, _)
\* cache.some with a callback that returns true once it has pushed a warning
someUntilWarning(st, key, cache, ext) ==
  IF cache = <<>> \/ st.thrown # "none" THEN st
  ELSE LET s1 == selector(st, key, Head(cache), ext)
       IN IF Len(s1.warnings) > Len(st.warnings) THEN s1
          ELSE someUntilWarning(s1, key, Tail(cache), ext)

RECURSIVE some(_, _, _, _)
\* cache.some(callback): the callback returns nothing, so every cacheKey is
\* visited unless the callback throws
some(st, key, cache, ext) ==
  IF cache = <<>> \/ st.thrown # "none" THEN st
  ELSE some(selector(st, key, Head(cache), ext), key, Tail(cache), ext)

RECURSIVE reduce(_, _, _, _, _, _)
\* [main, additional, optional].reduce(...): st.handled is the accumulated
\* result, st.raw keeps the cacheResult of every section
reduce(st, keys, o, ext, rel, sc) ==
  IF keys = <<>> \/ st.thrown # "none" THEN st
  ELSE LET key == Head(keys)
           cache == o.caches.sections[key]
       IN IF Len(cache) = 0 THEN reduce(st, Tail(keys), o, ext, rel, sc)
          ELSE LET s1 == some([st EXCEPT !.cacheResult = <<>>], key, cache, ext)
                   s2 == IF s1.thrown # "none" THEN [s1 EXCEPT !.raw[key] = s1.cacheResult]
                         ELSE [s1 EXCEPT !.raw[key] = s1.cacheResult,
                                         !.handled[key] =
                                           Val(validatePaths(Paths(s1.cacheResult), o.rewrites, rel, sc))]
               IN reduce(s2, Tail(keys), o, ext, rel, sc)

\* restConcat with the remainder in front of the section's own results
restConcatFront(handled, restSection, rest) ==
  [handled EXCEPT ![restSection] = Val(rest \o @.val)]

\* handledCaches[restSection] = handledCaches[restSection].concat(...)
restConcat(handled, restSection, rest) ==
  [handled EXCEPT ![restSection] = Val(@.val \o rest)]

NoSections == [k \in Range(SectionKeys) |-> Null]
NoRaw == [k \in Range(SectionKeys) |-> <<>>]

\* the caller's array left as it was handed over, as if the pool were
\* always a copy
callerArrayCopied(list, excludes, pool) == list

\* the array the caller handed over: filter() makes a new array for the
\* pool, without excludes the pool is the caller's array itself
callerArray(list, excludes, pool) == IF Len(excludes) > 0 THEN list ELSE pool

\* setAssets(list, compilation) on a plugin with options o and the fields
\* rel, sc, ext; oldCaches is this.caches and warn compilation.warnings at
\* the call. The result holds the fields and locals as the call leaves them.
setAssets(list, o, rel, sc, ext, oldCaches, warn) ==
  LET norm(l) == validatePaths(l, o.rewrites, rel, sc)
      filtered == excludeFilter(list, o.excludes)
  IN IF o.caches.all
       THEN [assets |-> Val(filtered), argument |-> callerArray(list, o.excludes, filtered),
             caches |-> Val([NoSections EXCEPT !["main"] = Val(norm(filtered))]),
             warnings |-> warn, thrown |-> "none", raw |-> NoRaw, restSection |-> ""]
       ELSE
         LET st == reduce([pool |-> filtered, warnings |-> warn, restSection |-> "",
                           thrown |-> "none", cacheResult |-> <<>>,
                           handled |-> NoSections, raw |-> NoRaw],
                          SectionKeys, o, ext, rel, sc)
             rest == st.restSection
             appended == IF rest # "" /\ Len(st.pool) > 0
                         THEN restConcat(st.handled, rest, norm(st.pool))
                         ELSE st.handled
             raw == IF rest # "" /\ Len(st.pool) > 0
                    THEN [st.raw EXCEPT ![rest] =
                            @ \o [i \in 1..Len(st.pool) |-> [path |-> st.pool[i], by |-> "rest"]]]
                    ELSE st.raw
         IN IF st.thrown # "none"
              THEN [assets |-> Val(st.pool), caches |-> oldCaches, warnings |-> st.warnings,
                    argument |-> callerArray(list, o.excludes, st.pool),
                    thrown |-> st.thrown, raw |-> st.raw, restSection |-> rest]
              ELSE [assets |-> Val(st.pool), caches |-> Val(appended), warnings |-> st.warnings,
                    argument |-> callerArray(list, o.excludes, st.pool),
                    thrown |-> "none", raw |-> raw, restSection |-> rest]

----------------------------------------------------------------------------
(* Inputs: build outputs and options *)

a_js == <<"a", ".", "j", "s">>
b_js == <<"b", ".", "j", "s">>
c_css == <<"c", ".", "c", "s", "s">>
d_e_js == <<"d", "/", "e", ".", "j", "s">>
star_js == <<"*", ".", "j", "s">>
a_star == <<"a", ".", "*">>
root == <<"/">>

OutputPaths == {a_js, b_js, c_css, d_e_js}
Selectors == {REST_KEY, star_js, a_js}

\* the sequences without repetition of at most n elements of S
RECURSIVE Lists(_, _)
Lists(S, n) ==
  IF n = 0 THEN {<<>>}
  ELSE LET shorter == Lists(S, n - 1)
       IN shorter \cup {Append(l, e) : l \in shorter, e \in S}

\* Object.keys(compilation.assets): the keys of an object are distinct
AssetLists == {l \in Lists(OutputPaths, MaxAssets) : Cardinality(Range(l)) = Len(l)}

SelectorLists == Lists(Selectors, MaxSelectors)

\* caches: 'all', or an object with a selector list per section
CachesSpace ==
  {[all |-> TRUE, sections |-> NoRaw]} \cup
  {[all |-> FALSE, sections |-> [main |-> m, additional |-> a, optional |-> p]] :
     <<m, a, p>> \in {t \in SelectorLists \X SelectorLists \X SelectorLists :
                        Len(t[1]) + Len(t[2]) + Len(t[3]) <= MaxSelectors}}

defaultOptions ==
  [caches |-> [all |-> TRUE, sections |-> NoRaw],
   scope |-> root,
   updateStrategy |-> "all",
   externals |-> Val(<<>>),
   excludes |-> <<>>,
   relativePaths |-> FALSE,
   rewrites |-> [kind |-> "function"],
   ServiceWorker |-> TRUE,
   AppCache |-> TRUE]

----------------------------------------------------------------------------
(* The constructor *)

\* the scope taken as it is configured, no trailing "/" removed
KeepTrailingSlash(s) == s

\* this.scope.replace(/\/$/, '')
StripTrailingSlash(s) == IF s # <<>> /\ s[Len(s)] = "/" THEN SubSeq(s, 1, Len(s) - 1) ELSE s

\* this.addTool(ServiceWorker, ...); this.addTool(AppCache, ...): a tool
\* whose options are null or false is not created
addTools(o) == SelectSeq(ToolNames, LAMBDA name : o[name])

\* constructorError without the update-strategy check
constructorErrorNoStrategy(o) ==
  IF Len(addTools(o)) = 0 THEN "tools" ELSE "none"

\* the error new OfflinePlugin(o) raises, "none" when it returns
constructorError(o) ==
  IF o.updateStrategy \notin updateStrategies THEN "strategy"
  ELSE IF Len(addTools(o)) = 0 THEN "tools"
  ELSE "none"

\* the state after new OfflinePlugin(o)
constructor(o) ==
  LET rel == o.scope = <<>> \/ o.relativePaths
  IN /\ options = o
     /\ relativePaths = rel
     /\ scope = IF rel THEN <<>> ELSE StripTrailingSlash(o.scope) \o <<"/">>
     /\ externals = IF o.externals.set THEN o.externals.val ELSE <<>>
     /\ tools = addTools(o)
     /\ thrown = constructorError(o)
     /\ hash = Null
     /\ assets = Null
     /\ caches = Null
     /\ warnings = <<>>
     /\ outputAssets = <<>>
     /\ argument = <<>>
     /\ cacheResult = NoRaw
     /\ hook = "idle"
     /\ promises = [t \in {} |-> "pending"]
     /\ all = "none"
     /\ reaction = "none"
     /\ applied = [t \in {} |-> Null]
     /\ callbacks = 0
     /\ builds = 0

----------------------------------------------------------------------------
(* Spec: setAssets on a new plugin, over the bucket specifications *)

PartitionOptions ==
  {[defaultOptions EXCEPT !.caches = c, !.excludes = x, !.externals = e] :
     c \in CachesSpace, x \in {<<>>, <<a_star>>}, e \in {Val(<<>>), Val(<<a_js>>), Null}}
  \cup {[defaultOptions EXCEPT !.updateStrategy = "never"],
        [defaultOptions EXCEPT !.ServiceWorker = FALSE, !.AppCache = FALSE],
        [defaultOptions EXCEPT !.updateStrategy = "never", !.ServiceWorker = FALSE,
                               !.AppCache = FALSE]}

Init == \E o \in PartitionOptions : constructor(o)

\* this.setAssets(list, compilation) with a new compilation
SetAssets ==
  /\ thrown = "none"
  /\ builds = 0
  /\ \E list \in AssetLists :
       \E r \in {setAssets(list, options, relativePaths, scope, externals, caches, <<>>)} :
          /\ outputAssets' = list
          /\ argument' = r.argument
          /\ assets' = r.assets
          /\ caches' = r.caches
          /\ warnings' = r.warnings
          /\ cacheResult' = r.raw
          /\ thrown' = r.thrown
  /\ builds' = builds + 1
  /\ UNCHANGED <<options, scope, relativePaths, externals, tools, hash, hook, promises,
                 all, reaction, applied, callbacks>>

Next == SetAssets

Spec == Init /\ [][Next]_vars

----------------------------------------------------------------------------
(* SpecScan: setAssets on a new plugin, over bucket specifications with two *)
(* overlapping glob patterns                                                *)

ScanSelectors == Selectors \cup {a_star}
ScanLists == Lists(ScanSelectors, MaxSelectors)
ScanCaches ==
  {[all |-> TRUE, sections |-> NoRaw]} \cup
  {[all |-> FALSE, sections |-> [main |-> m, additional |-> a, optional |-> p]] :
     <<m, a, p>> \in {t \in ScanLists \X ScanLists \X ScanLists :
                        Len(t[1]) + Len(t[2]) + Len(t[3]) <= MaxSelectors}}

ScanOptions ==
  {[defaultOptions EXCEPT !.caches = c, !.excludes = x] :
     c \in ScanCaches, x \in {<<>>, <<a_star>>}}

InitScan == \E o \in ScanOptions : constructor(o)

SpecScan == InitScan /\ [][Next]_vars

----------------------------------------------------------------------------
(* SpecHooks: the make and emit hooks of apply(compiler), build after build *)

\* Promise.all(tools): rejected with the first rejection, fulfilled once
\* every promise is fulfilled
promiseAll(ps) ==
  IF \E t \in DOMAIN ps : ps[t] = "rejected" THEN "rejected"
  ELSE IF \A t \in DOMAIN ps : ps[t] = "fulfilled" THEN "fulfilled"
  ELSE "pending"

\* useTools(fn): fn is called on every tool, in order, and returns a promise
useTools == [t \in Range(tools) |-> "pending"]

HookCaches ==
  {[all |-> TRUE, sections |-> NoRaw],
   [all |-> FALSE, sections |-> [NoRaw EXCEPT !.main = <<star_js>>, !.additional = <<REST_KEY>>]],
   [all |-> FALSE, sections |-> [NoRaw EXCEPT !.main = <<REST_KEY>>, !.additional = <<REST_KEY>>]]}

HookOptions ==
  {[defaultOptions EXCEPT !.caches = c, !.ServiceWorker = sw, !.AppCache = ac] :
     c \in HookCaches, sw \in BOOLEAN, ac \in BOOLEAN}

InitHooks == \E o \in HookOptions : constructor(o)

\* compiler.plugin('make', ...): the bundler starts a compilation
Make ==
  /\ thrown = "none"
  /\ hook \in {"idle", "emitted"}
  /\ builds < MaxBuilds
  /\ builds' = builds + 1
  /\ warnings' = <<>>
  /\ outputAssets' = <<>>
  /\ argument' = <<>>
  /\ promises' = useTools
  /\ all' = promiseAll(promises')
  /\ reaction' = "none"
  /\ callbacks' = 0
  /\ applied' = [t \in {} |-> Null]
  /\ hook' = "make"
  /\ UNCHANGED <<options, scope, relativePaths, externals, tools, hash, assets, caches,
                 cacheResult, thrown>>

\* compiler.plugin('emit', ...) with the tools invoked before setAssets
EmitToolsFirst ==
  /\ hook = "made"
  /\ \E list \in AssetLists :
       \E r \in {setAssets(list, options, relativePaths, scope, externals, caches, warnings)} :
          /\ outputAssets' = list
          /\ argument' = r.argument
          /\ hash' = Val(builds)
          /\ assets' = r.assets
          /\ caches' = r.caches
          /\ warnings' = r.warnings
          /\ cacheResult' = r.raw
          /\ thrown' = r.thrown
          /\ promises' = useTools
          /\ all' = promiseAll(promises')
          /\ applied' = [t \in Range(tools) |-> caches]
          /\ hook' = IF r.thrown # "none" THEN "failed" ELSE "emit"
  /\ reaction' = "none"
  /\ callbacks' = 0
  /\ UNCHANGED <<options, scope, relativePaths, externals, tools, builds>>

\* compiler.plugin('emit', ...) with setAssets going on from the pool the
\* last build left in this.assets
EmitFromLastPool ==
  /\ hook = "made"
  /\ \E list \in AssetLists :
       \E r \in {setAssets(IF assets.set THEN assets.val ELSE list, options, relativePaths,
                           scope, externals, caches, warnings)} :
          /\ outputAssets' = list
          /\ argument' = r.argument
          /\ hash' = Val(builds)
          /\ assets' = r.assets
          /\ caches' = r.caches
          /\ warnings' = r.warnings
          /\ cacheResult' = r.raw
          /\ thrown' = r.thrown
          /\ IF r.thrown # "none"
               THEN /\ hook' = "failed"
                    /\ UNCHANGED <<promises, all, applied, reaction, callbacks>>
               ELSE /\ promises' = useTools
                    /\ all' = promiseAll(promises')
                    /\ applied' = [t \in Range(tools) |-> r.caches]
                    /\ reaction' = "none"
                    /\ callbacks' = 0
                    /\ hook' = "emit"
  /\ UNCHANGED <<options, scope, relativePaths, externals, tools, builds>>

\* compiler.plugin('emit', ...): this.hash, setAssets over the keys of
\* compilation.assets, then apply of every tool; an error of setAssets leaves
\* the handler before useTools
Emit ==
  /\ hook = "made"
  /\ \E list \in AssetLists :
       \E r \in {setAssets(list, options, relativePaths, scope, externals, caches, warnings)} :
          /\ outputAssets' = list
          /\ argument' = r.argument
          /\ hash' = Val(builds)
          /\ assets' = r.assets
          /\ caches' = r.caches
          /\ warnings' = r.warnings
          /\ cacheResult' = r.raw
          /\ thrown' = r.thrown
          /\ IF r.thrown # "none"
               THEN /\ hook' = "failed"
                    /\ UNCHANGED <<promises, all, applied, reaction, callbacks>>
               ELSE /\ promises' = useTools
                    /\ all' = promiseAll(promises')
                    /\ applied' = [t \in Range(tools) |-> r.caches]
                    /\ reaction' = "none"
                    /\ callbacks' = 0
                    /\ hook' = "emit"
  /\ UNCHANGED <<options, scope, relativePaths, externals, tools, builds>>

\* the promise of a tool's addEntry or apply is fulfilled
Resolve ==
  /\ \E t \in DOMAIN promises :
       /\ promises[t] = "pending"
       /\ promises' = [promises EXCEPT ![t] = "fulfilled"]
  /\ all' = promiseAll(promises')
  /\ UNCHANGED <<options, scope, relativePaths, externals, tools, hash, assets, caches,
                 warnings, outputAssets, argument, cacheResult, thrown, hook, reaction,
                 applied, callbacks, builds>>

\* the promise of a tool's addEntry or apply is rejected
Reject ==
  /\ \E t \in DOMAIN promises :
       /\ promises[t] = "pending"
       /\ promises' = [promises EXCEPT ![t] = "rejected"]
  /\ all' = promiseAll(promises')
  /\ UNCHANGED <<options, scope, relativePaths, externals, tools, hash, assets, caches,
                 warnings, outputAssets, argument, cacheResult, thrown, hook, reaction,
                 applied, callbacks, builds>>

\* .then(() => { callback(); }, ...): the hook's callback is invoked
ThenFulfilled ==
  /\ all = "fulfilled"
  /\ reaction = "none"
  /\ reaction' = "callback"
  /\ callbacks' = callbacks + 1
  /\ hook' = IF hook = "make" THEN "made" ELSE "emitted"
  /\ UNCHANGED <<options, scope, relativePaths, externals, tools, hash, assets, caches,
                 warnings, outputAssets, argument, cacheResult, thrown, promises, all,
                 applied, builds>>

\* .then(..., () => { throw new Error('Something went wrong'); }): the throw
\* rejects the promise that then() returned, which nothing listens to; the
\* callback is not invoked and nothing is raised to the bundler
ThenRejected ==
  /\ all = "rejected"
  /\ reaction = "none"
  /\ reaction' = "throw"
  /\ UNCHANGED <<options, scope, relativePaths, externals, tools, hash, assets, caches,
                 warnings, outputAssets, argument, cacheResult, thrown, hook, promises, all,
                 applied, callbacks, builds>>

NextHooks == Make \/ Emit \/ Resolve \/ Reject \/ ThenFulfilled \/ ThenRejected

SpecHooks == InitHooks /\ [][NextHooks]_vars

----------------------------------------------------------------------------
(* SpecPaths: setAssets on a new plugin, over scopes, rewrite rules and     *)
(* build outputs with index documents and internal entries                  *)

app_js == <<"a", "p", "p", ".", "j", "s">>
app_js_map == <<"a", "p", "p", ".", "j", "s", ".", "m", "a", "p">>
index_html == <<"i", "n", "d", "e", "x", ".", "h", "t", "m", "l">>
d_index_htm == <<"d", "/", "i", "n", "d", "e", "x", ".", "h", "t", "m">>
xindex_htm == <<"x", "i", "n", "d", "e", "x", ".", "h", "t", "m">>
offline_x == entryPrefix \o <<"x">>
star_map == <<"*", ".", "m", "a", "p">>
under_star == <<"_", "*">>
cdn_app_js == <<"/", "/", "c", "d", "n", "/", "a", "p", "p", ".", "j", "s">>
y_js == <<"y", ".", "j", "s">>
app == <<"/", "a", "p", "p">>

PathOutputs == {app_js, app_js_map, index_html, d_index_htm, xindex_htm, offline_x}
PathLists == {l \in Lists(PathOutputs, MaxAssets) : Cardinality(Range(l)) = Len(l)}

\* a rewrites option that is a table: a CDN address, a dropped path and an
\* entry for an internal entry
RewriteTable ==
  [p \in {app_js, index_html, offline_x} |->
     IF p = app_js THEN cdn_app_js ELSE IF p = index_html THEN <<>> ELSE y_js]

PathCaches ==
  {[all |-> TRUE, sections |-> NoRaw],
   [all |-> FALSE, sections |-> [NoRaw EXCEPT !.main = <<offline_x>>, !.additional = <<REST_KEY>>]],
   [all |-> FALSE, sections |-> [NoRaw EXCEPT !.main = <<under_star>>, !.optional = <<REST_KEY>>]],
   [all |-> FALSE, sections |-> [NoRaw EXCEPT !.main = <<app_js, REST_KEY>>]]}

\* scope and relativePaths as configured
ScopeOptions ==
  {<<root, FALSE>>, <<app, FALSE>>, <<app \o root, FALSE>>, <<app \o root \o root, FALSE>>,
   <<<<>>, FALSE>>, <<app \o root, TRUE>>}

PathOptions ==
  {[defaultOptions EXCEPT !.caches = c, !.excludes = x, !.scope = sr[1],
                          !.relativePaths = sr[2], !.rewrites = w] :
     c \in PathCaches, x \in {<<>>, <<star_map>>}, sr \in ScopeOptions,
     w \in {[kind |-> "function"], [kind |-> "table", table |-> RewriteTable]}}

InitPaths == \E o \in PathOptions : constructor(o)

\* this.setAssets(list, compilation) with a new compilation
SetAssetsOnPaths ==
  /\ thrown = "none"
  /\ builds = 0
  /\ \E list \in PathLists :
       \E r \in {setAssets(list, options, relativePaths, scope, externals, caches, <<>>)} :
          /\ outputAssets' = list
          /\ argument' = r.argument
          /\ assets' = r.assets
          /\ caches' = r.caches
          /\ warnings' = r.warnings
          /\ cacheResult' = r.raw
          /\ thrown' = r.thrown
  /\ builds' = builds + 1
  /\ UNCHANGED <<options, scope, relativePaths, externals, tools, hash, hook, promises,
                 all, reaction, applied, callbacks>>

NextPaths == SetAssetsOnPaths

SpecPaths == InitPaths /\ [][NextPaths]_vars

----------------------------------------------------------------------------
(* Vocabulary of the properties of setAssets *)

Sections == Range(SectionKeys)
Order(k) == IndexOf(SectionKeys, k)
Declared(k) == options.caches.sections[k]
Sectioned == ~options.caches.all

\* setAssets has been called and has returned
Completed == builds > 0 /\ thrown = "none" /\ hook = "idle"

\* the build output without the paths an exclude pattern matches
Excluded(p) == \E g \in Range(options.excludes) : minimatch(p, g)
Filtered == SelectSeq(outputAssets, LAMBDA p : ~Excluded(p))

\* what a selector asks for
Wants(sel, p) ==
  /\ sel # REST_KEY
  /\ IF hasMagic(sel) THEN minimatch(p, sel) ELSE sel = p
Selected(p) == \E k \in Sections : \E i \in 1..Len(Declared(k)) : Wants(Declared(k)[i], p)
Leftover == SelectSeq(Filtered, LAMBDA p : ~Selected(p))
RestCount ==
  Cardinality({<<k, i>> \in Sections \X (1..MaxSelectors + 1) :
                 i <= Len(Declared(k)) /\ Declared(k)[i] = REST_KEY})

\* the entries of a section that were taken out of the pool
FromPool == {"glob", "found", "rest"}
Taken(k) == SelectSeq(cacheResult[k], LAMBDA e : e.by \in FromPool)
PassedThrough(k) == SelectSeq(cacheResult[k], LAMBDA e : e.by \notin FromPool)
Entries(k) == Paths(cacheResult[k])
Warned(kind, key) == [kind |-> kind, key |-> key] \in Range(warnings)

----------------------------------------------------------------------------
(* C1 *)

\* C1, as stated: after setAssets no path of the build output appears in
\* more than one of the sections main, additional, optional.
C1_NoPathInTwoSections ==
  Completed =>
    \A p \in Range(outputAssets) :
      Cardinality({k \in Sections : p \in Range(Entries(k))}) <= 1

\* C1, amended: no path of the build output is taken out of the pool more
\* than once (by a glob, a found literal or :rest:), so it is claimed by at
\* most one section; where the same path stands in a second section, it
\* stands there as a literal selector that was passed through.
C1_TakenAtMostOnce ==
  Completed =>
    \A p \in Range(outputAssets) :
      /\ Cardinality({<<k, i>> \in Sections \X (1..Len(outputAssets)) :
                        i <= Len(Taken(k)) /\ Taken(k)[i].path = p}) <= 1
      /\ \A k1, k2 \in Sections :
           (k1 # k2 /\ p \in Range(Entries(k1)) /\ p \in Range(Entries(k2)))
             => \/ p \in Range(Paths(PassedThrough(k1)))
                \/ p \in Range(Paths(PassedThrough(k2)))

\* a path claimed by one section and named by a selector of another one
C1_Witness ==
  /\ Completed
  /\ \E p \in Range(outputAssets) : \E k1, k2 \in Sections :
       /\ k1 # k2
       /\ p \in Range(Paths(Taken(k1)))
       /\ \E i \in 1..Len(Declared(k2)) : Wants(Declared(k2)[i], p)

----------------------------------------------------------------------------
(* C2 *)

AllEntries == UNION {Range(Entries(k)) : k \in Sections}
AllTaken == UNION {Range(Paths(Taken(k))) : k \in Sections}
Unclaimed == IF RestCount = 0 THEN Range(Leftover) ELSE {}
Literals(k) == {Declared(k)[i] : i \in {j \in 1..Len(Declared(k)) :
                                         Declared(k)[j] # REST_KEY /\ ~hasMagic(Declared(k)[j])}}

\* C2, as stated: with a bucket specification the raw paths placed in the
\* sections are the build output minus the excluded paths minus the paths
\* left unclaimed when no :rest: is declared (so every entry is a member of
\* the build output minus the excluded paths).
C2_EntriesAreFilteredOutput ==
  (Completed /\ Sectioned) => AllEntries = Range(Filtered) \ Unclaimed

\* C2, amended: the paths taken out of the pool into the sections are the
\* build output minus the excluded paths minus the paths left unclaimed
\* when no :rest: is declared; every other entry of a section is a literal
\* selector of that section that was not in the pool when it was processed.
C2_TakenAreFilteredOutput ==
  (Completed /\ Sectioned) =>
    /\ AllTaken = Range(Filtered) \ Unclaimed
    /\ \A k \in Sections : \A p \in Range(Entries(k)) :
         p \notin AllTaken => p \in Literals(k)

\* no :rest:, an unclaimed path, a claimed path and a passed-through literal
C2_Witness ==
  /\ Completed /\ Sectioned /\ RestCount = 0
  /\ Leftover # <<>>
  /\ AllTaken # {}
  /\ \E k \in Sections : PassedThrough(k) # <<>>

----------------------------------------------------------------------------
(* C3 *)

\* literal L of section k2 names a path a glob of the earlier section k1 took
ClaimedEarlier(k1, k2, L) ==
  /\ Order(k1) < Order(k2)
  /\ L \in Literals(k2)
  /\ \E i \in 1..Len(cacheResult[k1]) :
       cacheResult[k1][i] = [path |-> L, by |-> "glob"]

\* C3, as stated: a literal naming a path that a glob of an earlier section
\* has claimed is passed through into its section with a warning naming it,
\* whatever the externals.
C3_AlwaysWarned ==
  Completed =>
    \A k1, k2 \in Sections : \A L \in Literals(k2) :
      ClaimedEarlier(k1, k2, L) => (L \in Range(Entries(k2)) /\ Warned("asset", L))

\* C3, amended: such a literal is never found in the pool; it is passed
\* through into its section, with a warning naming it unless it is listed in
\* externals, in which case it is passed through without a warning.
C3_WarnedUnlessExternal ==
  Completed =>
    \A k1, k2 \in Sections : \A L \in Literals(k2) :
      ClaimedEarlier(k1, k2, L) =>
        /\ L \in Range(Paths(PassedThrough(k2)))
        /\ L \notin Range(Paths(Taken(k2)))
        /\ Warned("asset", L) <=> L \notin Range(externals)

\* the literal is passed through next to the claimed path and is listed in
\* externals
C3_Witness ==
  /\ Completed
  /\ \E k1, k2 \in Sections : \E L \in Literals(k2) :
       ClaimedEarlier(k1, k2, L) /\ L \in Range(externals)

----------------------------------------------------------------------------
(* C4 *)

\* the raw paths of a section of the result
BucketAssets(k) ==
  IF Sectioned THEN Entries(k)
  ELSE IF k = "main" THEN assets.val ELSE <<>>

\* C4: a path an exclude pattern matches is in no section of the result, with
\* 'all' and with a bucket specification, and the paths that pass the filter
\* keep their order.
C4_ExcludedNeverCached ==
  Completed =>
    /\ \A k \in Sections : \A p \in Range(BucketAssets(k)) : ~Excluded(p)
    /\ ~Sectioned => assets.val = Filtered

----------------------------------------------------------------------------
(* C5 *)

RestSection == CHOOSE k \in Sections : REST_KEY \in Range(Declared(k))
Own(k) == SelectSeq(cacheResult[k], LAMBDA e : e.by # "rest")
Normalized(list) == validatePaths(list, options.rewrites, relativePaths, scope)

\* C5: with exactly one :rest:, the paths no selector of any section asks
\* for are appended, in build-output order, to the :rest: section, behind
\* the results of that section's own selectors wherever :rest: stands among
\* them; without :rest: these paths are in no section. The claim's example
\* is checked with a.js, b.js, c.css for app.js, vendor.js, style.css.
C5_RestTakesLeftover ==
  (Completed /\ Sectioned) =>
    /\ RestCount = 1 =>
         /\ Entries(RestSection) = Paths(Own(RestSection)) \o Leftover
         /\ \A e \in Range(Own(RestSection)) :
              \E i \in 1..Len(Declared(RestSection)) : Wants(Declared(RestSection)[i], e.path)
         /\ caches.val[RestSection].val =
              Normalized(Paths(Own(RestSection))) \o Normalized(Leftover)
         /\ \A k \in Sections \ {RestSection} : \A p \in Range(Leftover) :
              p \notin Range(Entries(k))
    /\ RestCount = 0 => \A p \in Range(Leftover) : p \notin AllEntries
    /\ ( /\ Declared("main") = <<a_js>> /\ Declared("additional") = <<REST_KEY>>
         /\ Declared("optional") = <<>>
         /\ outputAssets = <<a_js, b_js, c_css>> /\ options.excludes = <<>> )
       => (Entries("main") = <<a_js>> /\ Entries("additional") = <<b_js, c_css>>)

\* :rest: stands in front of a selector of its section that has a result,
\* and two paths are left over
C5_Witness ==
  /\ Completed /\ Sectioned /\ RestCount = 1
  /\ Len(Leftover) >= 2
  /\ Own(RestSection) # <<>>
  /\ Declared(RestSection)[1] = REST_KEY

----------------------------------------------------------------------------
(* C6 *)

\* C6: a bucket specification with two :rest: (in one section or in two)
\* makes setAssets raise the ':rest: can be used only once' error, and that
\* call assigns no bucket map.
C6_SecondRestIsFatal ==
  (builds > 0 /\ Sectioned /\ RestCount >= 2) => (thrown = "rest" /\ ~caches.set)

\* the two :rest: stand in different sections
C6_Witness ==
  /\ builds > 0 /\ thrown = "rest"
  /\ Cardinality({k \in Sections : REST_KEY \in Range(Declared(k))}) = 2

----------------------------------------------------------------------------
(* C7 *)

NoOutputProcessed ==
  /\ assets = Null /\ caches = Null
  /\ warnings = <<>> /\ cacheResult = NoRaw

\* C7, as stated: each fatal error (update strategy, second :rest:, no cache
\* tool) is raised before any build output is processed: nothing filtered or
\* partitioned, no warning pushed, this.assets and this.caches untouched.
C7_FatalBeforeProcessing == thrown # "none" => NoOutputProcessed

\* C7, amended: the update-strategy and no-tool errors are raised by the
\* constructor, before any build output is processed; the :rest: error is
\* raised inside setAssets, once the build output has been filtered and
\* stored in this.assets, and before this.caches is assigned.
C7_ConstructorFatalBeforeProcessing ==
  /\ (options.updateStrategy \notin updateStrategies \/ ~(options.ServiceWorker \/ options.AppCache))
       <=> thrown \in {"strategy", "tools"}
  /\ thrown \in {"strategy", "tools"} => (builds = 0 /\ NoOutputProcessed)
  /\ thrown = "rest" =>
       /\ builds > 0 /\ RestCount >= 2
       /\ assets.set /\ Range(assets.val) \subseteq Range(Filtered)
       /\ ~caches.set

\* the :rest: error is raised after the exclusion filter has removed a path
C7_Witness ==
  /\ thrown = "rest"
  /\ assets.set /\ assets.val # outputAssets

----------------------------------------------------------------------------
(* C8 *)

Positions == {<<k, i>> \in Sections \X (1..MaxSelectors + 1) : i <= Len(Declared(k))}
At(q) == Declared(q[1])[q[2]]
Before(q, r) == Order(q[1]) < Order(r[1]) \/ (q[1] = r[1] /\ q[2] < r[2])
LiteralAt(q) == At(q) # REST_KEY /\ ~hasMagic(At(q))
\* the literal at q is not in the pool when q is processed
AbsentAt(q) ==
  \/ At(q) \notin Range(Filtered)
  \/ \E r \in Positions : Before(r, q) /\ Wants(At(r), At(q))
WarnsAt(q) == LiteralAt(q) /\ AbsentAt(q) /\ At(q) \notin Range(externals)

\* C8: a literal selector pushes a warning exactly when it is not in the
\* pool as it is processed and not listed in externals; a literal listed in
\* externals never warns; found, external or missing, the literal is
\* appended to the section that declares it.
C8_LiteralWarnsIffMissing ==
  (Completed /\ Sectioned) =>
    /\ Len(SelectSeq(warnings, LAMBDA w : w.kind = "asset"))
         = Cardinality({q \in Positions : WarnsAt(q)})
    /\ \A q \in Positions : WarnsAt(q) => Warned("asset", At(q))
    /\ \A L \in Range(externals) : ~Warned("asset", L)
    /\ \A k \in Sections :
         Paths(SelectSeq(cacheResult[k], LAMBDA e : e.by \in {"found", "external", "missing"}))
           = SelectSeq(Declared(k), LAMBDA c : c # REST_KEY /\ ~hasMagic(c))

\* a literal that is not in the build output, with its warning, in its section
C8_Witness ==
  /\ Completed /\ Sectioned
  /\ \E q \in Positions :
       /\ WarnsAt(q) /\ At(q) \notin Range(outputAssets)
       /\ Warned("asset", At(q))
       /\ At(q) \in Range(Entries(q[1]))

----------------------------------------------------------------------------
(* C9 *)

\* C9: when the promise of a tool's addEntry or apply is rejected, the hook
\* ends the build step: once its rejection handler has run, the bundler has
\* been called back or has been given an error.
C9_FailureReachesBundler ==
  reaction = "throw" => (callbacks > 0 \/ thrown # "none")

----------------------------------------------------------------------------
(* C10 *)

\* C10: when a tool's apply is invoked, setAssets has assigned this.caches
\* for the compilation being emitted; the emit callback is invoked at most
\* once, and only when the apply of every tool has completed.
C10_EmitOrder ==
  /\ callbacks <= 1
  /\ hook \in {"emit", "emitted"} =>
       /\ caches.set
       /\ caches = setAssets(outputAssets, options, relativePaths, scope, externals,
                             Null, <<>>).caches
       /\ \A t \in Range(tools) : t \in DOMAIN applied /\ applied[t] = caches
  /\ hook = "emit" => callbacks = 0
  /\ hook = "emitted" =>
       (callbacks = 1 /\ \A t \in Range(tools) : promises[t] = "fulfilled")

\* the second emit of a plugin with two tools has called back
C10_Witness ==
  /\ hook = "emitted" /\ builds = 2
  /\ Len(tools) = 2
  /\ \A t \in Range(tools) : applied[t] = caches

----------------------------------------------------------------------------
(* C11 *)

Rewritten(p) == rewrite(options.rewrites, p)
Final(p) == normalize(Rewritten(p), relativePaths, scope)
\* the final paths of a list of raw paths, the dropped ones left out
FinalOf(list) ==
  LET kept == SelectSeq(list, LAMBDA p : Rewritten(p) # <<>>)
  IN [i \in 1..Len(kept) |-> Final(kept[i])]
\* the spec's example of the simplified mode
SimplifiedExample ==
  /\ Completed /\ ~Sectioned
  /\ options.excludes = <<star_map>> /\ outputAssets = <<app_js, app_js_map, index_html>>
  /\ options.rewrites.kind = "function" /\ options.scope = root /\ ~options.relativePaths

\* C11, as stated: with caches = 'all' the result has the single section
\* main with the filtered assets in input order, rewritten and normalised;
\* for excludes ["*.map"] and assets app.js, app.js.map, index.html under the
\* default rule and scope '/', main is ["app.js", "/"].
C11_SimplifiedMain ==
  /\ (Completed /\ ~Sectioned) =>
       /\ caches.val["main"] = Val(FinalOf(Filtered))
       /\ ~caches.val["additional"].set /\ ~caches.val["optional"].set
  /\ SimplifiedExample => caches.val["main"].val = <<app_js, root>>

\* C11, amended: the same, and in the example main is ["/app.js", "/"]: the
\* scope '/' is put in front of every path, app.js included.
C11_SimplifiedMainScoped ==
  /\ (Completed /\ ~Sectioned) =>
       /\ caches.val["main"] = Val(FinalOf(Filtered))
       /\ ~caches.val["additional"].set /\ ~caches.val["optional"].set
  /\ SimplifiedExample => caches.val["main"].val = <<root \o app_js, root>>

C11_Witness == SimplifiedExample

----------------------------------------------------------------------------
(* C12 *)

\* the paths of this.caches, every section together
FinalEntries == UNION {Range(caches.val[k].val) : k \in Sections}
Renormalized(q) == normalize(q, relativePaths, scope)

\* C12, as stated: for every scope and in both modes, the normalisation step
\* of validatePaths applied to a path it has produced gives the same path.
C12_NormalizeIdempotent ==
  Completed => \A q \in FinalEntries : Renormalized(q) = q

\* C12, amended: the normalisation step applied to a path it has produced
\* gives the same path exactly when, in non-relative mode, the scope prefix
\* is '/', and, in relative mode, the path does not begin with a separator
\* (it does when the rewritten path began with two); in every other case the
\* second application changes the path.
C12_NormalizeIdempotentAtRoot ==
  Completed =>
    \A q \in FinalEntries :
      (Renormalized(q) = q) <=>
        IF relativePaths THEN StripSlash(q) = q ELSE scope = root

\* a path under the scope /app/ that the second application changes
C12_Witness ==
  /\ Completed /\ ~relativePaths /\ scope = app \o root
  /\ app \o root \o app_js \in FinalEntries
  /\ Renormalized(app \o root \o app_js) = app \o root \o Tail(app) \o root \o app_js

----------------------------------------------------------------------------
(* C13 *)

\* the last segment of a path and what stands in front of it
LastSegment(p) == LET segs == Split(p, <<>>) IN segs[Len(segs)]
DirPart(p) == SubSeq(p, 1, Len(p) - Len(LastSegment(p)))
IndexDocuments == {IndexHtm, Append(IndexHtm, "l")}
\* the default rule as the claim words it
IndexDirectory(p) ==
  IF LastSegment(p) \notin IndexDocuments THEN p
  ELSE IF DirPart(p) = <<>> THEN root ELSE DirPart(p)

\* C13: without a user rule, rewrite(p) is the directory part of p when the
\* last segment of p is exactly index.html or index.htm, '/' when that part
\* is empty, and p itself for every other path (checked on the build output
\* that does not carry the entry prefix).
C13_DefaultRewritesIndexOnly ==
  options.rewrites.kind = "function" =>
    \A p \in Range(outputAssets) :
      ~StartsWith(p, entryPrefix) => Rewritten(p) = IndexDirectory(p)

----------------------------------------------------------------------------
(* C14 *)

Internal(p) == StartsWith(p, entryPrefix)
WithoutInternal(list) == SelectSeq(list, LAMBDA p : ~Internal(p))

\* C14: a path of the build output that begins with the entry prefix
\* '__offline_' gives no entry of this.caches, under a rule that is a
\* function or a table, with 'all' and with a bucket specification, taken by
\* a glob, a literal or :rest:; every section holds the final paths of its
\* other raw paths and nothing else.
C14_InternalEntriesDropped ==
  Completed =>
    \A k \in Sections :
      /\ caches.val[k].val = FinalOf(WithoutInternal(BucketAssets(k)))
      /\ \A p \in Range(BucketAssets(k)) : Internal(p) => Rewritten(p) = <<>>

\* an internal entry a glob took, under a table that has a row for it
C14_Witness ==
  /\ Completed /\ Sectioned
  /\ options.rewrites.kind = "table" /\ offline_x \in DOMAIN options.rewrites.table
  /\ [path |-> offline_x, by |-> "glob"] \in Range(cacheResult["main"])
  /\ Len(caches.val["main"].val) < Len(cacheResult["main"])

----------------------------------------------------------------------------
(* C15 *)

\* selector i of section k has left its trace: a literal its entry, a glob
\* the paths it matched or its warning
Processed(k, i) ==
  LET sel == Declared(k)[i]
  IN IF sel = REST_KEY THEN Range(Leftover) \subseteq Range(Entries(k))
     ELSE IF hasMagic(sel)
       THEN \/ \E e \in Range(cacheResult[k]) : e.by = "glob" /\ minimatch(e.path, sel)
            \/ Warned("pattern", sel)
     ELSE sel \in Range(Paths(SelectSeq(cacheResult[k],
                                         LAMBDA e : e.by \in {"found", "external", "missing"})))
\* selector i of section k pushed a warning
WarnedAt(k, i) ==
  LET sel == Declared(k)[i]
  IN sel # REST_KEY /\ (Warned("pattern", sel) \/ Warned("asset", sel))

\* C15: a glob without a match and a missing literal raise nothing and stop
\* nothing: every selector behind them, in their section and in the later
\* sections, is processed, setAssets returns with this.caches assigned, and
\* the only error setAssets raises is the one of a second :rest:.
C15_WarningsNeverStop ==
  builds > 0 =>
    /\ thrown \in {"none", "rest"}
    /\ thrown = "rest" => RestCount >= 2
    /\ RestCount <= 1 =>
         /\ thrown = "none"
         /\ caches.set
         /\ Sectioned =>
              \A k \in Sections :
                /\ Declared(k) # <<>> => caches.val[k].set
                /\ \A i \in 1..Len(Declared(k)) : Processed(k, i)

\* the first selector of a section warned, the second took a path
C15_Witness ==
  /\ Completed /\ Sectioned
  /\ \E k \in Sections :
       /\ Len(Declared(k)) = 2
       /\ WarnedAt(k, 1)
       /\ Declared(k)[2] # Declared(k)[1]
       /\ \E e \in Range(Taken(k)) : Wants(Declared(k)[2], e.path)

----------------------------------------------------------------------------
(* C16 *)

RECURSIVE TrailingSeparators(_)
\* the number of "/" at the end of s
TrailingSeparators(s) ==
  IF s = <<>> \/ s[Len(s)] # "/" THEN 0
  ELSE 1 + TrailingSeparators(SubSeq(s, 1, Len(s) - 1))
Trimmed(s) == SubSeq(s, 1, Len(s) - TrailingSeparators(s))

\* C16, as stated: in non-relative mode the scope prefix ends in exactly one
\* separator for every configured scope, and is empty when the scope is
\* configured as root.
C16_ScopeOneSeparatorOrEmpty ==
  ~relativePaths =>
    IF options.scope = root THEN scope = <<>>
    ELSE TrailingSeparators(scope) = 1

\* C16, amended: in non-relative mode the scope prefix is the configured
\* scope with one trailing separator removed, if it has one, and one
\* separator appended: it ends in one separator when the configured scope
\* ends in at most one, keeps the others when it ends in more, and is '/',
\* not empty, when the scope is configured as root; it is put in front of
\* every path of this.caches.
C16_ScopeSeparatorAppended ==
  ~relativePaths =>
    /\ Trimmed(scope) = Trimmed(options.scope)
    /\ TrailingSeparators(scope) =
         IF TrailingSeparators(options.scope) <= 1 THEN 1
         ELSE TrailingSeparators(options.scope)
    /\ options.scope = root => scope = root
    /\ Completed => \A q \in FinalEntries : StartsWith(q, scope)

\* the scope configured as root, in front of a path of this.caches
C16_Witness ==
  /\ Completed /\ ~relativePaths
  /\ options.scope = root /\ scope = root
  /\ root \o app_js \in FinalEntries

----------------------------------------------------------------------------
(* C17 *)

GlobAt(q) == At(q) # REST_KEY /\ hasMagic(At(q))
\* the pool as the selector at q finds it: the filtered build output
\* without the paths an earlier selector asks for
EarlierWants(q, p) ==
  \/ \E i \in 1..(q[2] - 1) : Wants(Declared(q[1])[i], p)
  \/ \E k \in Sections :
       Order(k) < Order(q[1]) /\ \E i \in 1..Len(Declared(k)) : Wants(Declared(k)[i], p)
PoolAt(q) == SelectSeq(Filtered, LAMBDA p : ~EarlierWants(q, p))
\* the paths of that pool the pattern at q matches, in pool order
Moved(q) == SelectSeq(PoolAt(q), LAMBDA p : minimatch(p, At(q)))
RECURSIVE MovedUpTo(_, _)
\* what the globs among the first i selectors of section k move, in turn
MovedUpTo(k, i) ==
  IF i = 0 THEN <<>>
  ELSE MovedUpTo(k, i - 1) \o (IF GlobAt(<<k, i>>) THEN Moved(<<k, i>>) ELSE <<>>)
GlobEntries(k) == Paths(SelectSeq(cacheResult[k], LAMBDA e : e.by = "glob"))

\* C17: a glob selector moves into its section, in pool order, exactly the
\* paths that are in the pool when it is processed and match it, runs of
\* adjacent matches and a match in the last place included; the rest of the
\* pool keeps its order; a warning naming the pattern is pushed exactly when
\* it moved nothing.
C17_GlobMovesEveryMatch ==
  (Completed /\ Sectioned) =>
    /\ \A k \in Sections : GlobEntries(k) = MovedUpTo(k, Len(Declared(k)))
    /\ Len(SelectSeq(warnings, LAMBDA w : w.kind = "pattern"))
         = Cardinality({q \in Positions : GlobAt(q) /\ Moved(q) = <<>>})
    /\ \A q \in Positions : (GlobAt(q) /\ Moved(q) = <<>>) => Warned("pattern", At(q))
    /\ \A w \in Range(warnings) :
         w.kind = "pattern" =>
           \E q \in Positions : GlobAt(q) /\ At(q) = w.key /\ Moved(q) = <<>>
    /\ assets.val = SelectSeq(Filtered, LAMBDA p : p \in Range(assets.val))
    /\ \A k \in Sections : \A p \in Range(GlobEntries(k)) : p \notin Range(assets.val)

\* two adjacent matches at the end of the pool, behind a path that stays
C17_Witness ==
  /\ Completed /\ Sectioned
  /\ Declared("main") = <<star_js>>
  /\ PoolAt(<<"main", 1>>) = <<c_css, a_js, b_js>>
  /\ GlobEntries("main") = <<a_js, b_js>>
  /\ assets.val = <<c_css>>
  /\ warnings = <<>>

----------------------------------------------------------------------------
(* C18 *)

RECURSIVE Claimed(_, _)
\* the raw paths the first i selectors of section k put in the section: a
\* literal itself, a glob what it moves, :rest: nothing yet
Claimed(k, i) ==
  IF i = 0 THEN <<>>
  ELSE Claimed(k, i - 1) \o
       (IF At(<<k, i>>) = REST_KEY THEN <<>>
        ELSE IF GlobAt(<<k, i>>) THEN Moved(<<k, i>>)
        ELSE <<At(<<k, i>>)>>)
\* the finished partition of the raw paths, nothing rewritten
Partition(k) ==
  Claimed(k, Len(Declared(k))) \o
    (IF RestCount = 1 /\ k = RestSection THEN Leftover ELSE <<>>)

\* C18: rewriting and normalisation do not change the section of a path:
\* the sections setAssets builds, each rewritten as soon as its selectors
\* are processed and the remainder as it is appended, are the sections of
\* the finished partition of the raw paths, rewritten and normalised
\* afterwards, under every rule, scope and relativePaths.
C18_RewriteAfterPartition ==
  (Completed /\ Sectioned) =>
    \A k \in Sections :
      /\ Entries(k) = Partition(k)
      /\ caches.val[k] = IF Declared(k) = <<>> THEN Null
                         ELSE Val(FinalOf(Partition(k)))

\* a literal found and a remainder appended to its section, under a table
\* that changes the one and drops a path of the other
C18_Witness ==
  /\ Completed /\ Sectioned /\ options.rewrites.kind = "table"
  /\ Declared("main") = <<app_js, REST_KEY>>
  /\ Entries("main") = <<app_js, index_html, d_index_htm>>
  /\ Len(caches.val["main"].val) = 2
  /\ Rewritten(app_js) # app_js

----------------------------------------------------------------------------
(* C19 *)

\* the emit hook of the current build has called setAssets
Emitted == hook \in {"emit", "emitted", "failed"}
\* setAssets on the build output of the current build, on a plugin that has
\* the configuration and nothing else: no this.caches, a new compilation
FirstBuild ==
  setAssets(outputAssets, options, relativePaths, scope, externals, Null, <<>>)

\* C19: build after build on one plugin, what setAssets leaves (the bucket
\* map, the warnings of the compilation, this.assets, the error) is what it
\* leaves on a new plugin of the same configuration for the same build
\* output: nothing of an earlier build enters it.
C19_NoStateAcrossBuilds ==
  Emitted =>
    /\ caches = FirstBuild.caches
    /\ warnings = FirstBuild.warnings
    /\ assets = FirstBuild.assets
    /\ cacheResult = FirstBuild.raw
    /\ thrown = FirstBuild.thrown

\* the second build of a plugin, with a glob that matches nothing of it
C19_Witness ==
  /\ builds = 2 /\ hook = "emitted" /\ Sectioned
  /\ outputAssets = <<c_css>>
  /\ warnings = <<[kind |-> "pattern", key |-> star_js]>>
  /\ caches.val["additional"].val = <<root \o c_css>>

----------------------------------------------------------------------------
(* C20 *)

\* C20: this.assets is the pool setAssets worked on: with a bucket
\* specification it holds, in build-output order, the filtered paths no
\* glob and no literal took, with 'all' the whole filtered list; without
\* excludes the caller's array is that pool and is shortened with it, with
\* excludes the caller's array is left as it was.
C20_AssetsIsThePool ==
  (builds > 0 /\ thrown = "none") =>
    /\ assets.set
    /\ assets.val = IF Sectioned THEN Leftover ELSE Filtered
    /\ Sectioned =>
         \A p \in Range(Filtered) :
           p \in Range(assets.val) <=>
             \A k \in Sections : \A e \in Range(cacheResult[k]) :
               e.path = p => e.by \notin {"glob", "found"}
    /\ argument = IF options.excludes = <<>> THEN assets.val ELSE outputAssets

\* no excludes, a glob and a literal each took a path out of the caller's
\* array, one path is left in it
C20_Witness ==
  /\ Completed /\ Sectioned /\ options.excludes = <<>>
  /\ \E k \in Sections : \E e \in Range(cacheResult[k]) : e.by = "glob"
  /\ \E k \in Sections : \E e \in Range(cacheResult[k]) : e.by = "found"
  /\ Len(outputAssets) = 3
  /\ Len(argument) = 1 /\ argument = assets.val

====
